---- MODULE Spec2Model ----
(***************************************************************************)
(* Bookstore REST API (gin + gorm + sqlite): main.go wires the routes, the *)
(* README carries models/setup.go, models/book.go and controllers/books.go.*)
(* The model has the process start-up (ConnectDatabase, r.Run), the router *)
(* and the five handlers over the books table.  Spec runs one request at a *)
(* time; SpecConc interleaves the storage statements of concurrent         *)
(* UpdateBook / DeleteBook requests.                                       *)
(***************************************************************************)
EXTENDS Integers, Sequences, FiniteSets, TLC

VARIABLES
    pc,        \* position of main: "start", "serving", "aborted", "exited"
    DB,        \* models.DB: "nil" or "open"
    books,     \* rows of table books
    seq,       \* largest id the table has assigned (sqlite autoincrement)
    req,       \* the request served last
    handler,   \* the handler the router dispatched it to
    resp,      \* the response written for it
    dbCalls,   \* the calls on models.DB the handler made, in order
    pre,       \* history: store, created record and deleted ids before req
    created,   \* history: the record returned by req when it was a 200 create
    deleted,   \* history: ids whose row a DeleteBook has removed
    inflight,  \* SpecConc: the concurrent requests, one per slot
    books0     \* SpecConc: the rows when the concurrent requests began

vars == <<pc, DB, books, seq, req, handler, resp, dbCalls, pre, created,
          deleted, inflight, books0>>

----------------------------------------------------------------------------
\* Bounds

\* Rows the table ever assigns an id to.
MaxBooks == 2

\* Concurrent requests of SpecConc.
NSlots == 2

----------------------------------------------------------------------------
\* Values

Titles == {"Start with Why", "The Infinite Game"}

Authors == {"Simon Sinek", "Rahman Fadhil"}

\* A JSON key that the body does not hold.
Absent == "<absent>"

\* A JSON value that is not a string (a number, say).
NotString == "<number>"

\* models.Book
Book(id, title, author) == [id |-> id, title |-> title, author |-> author]

\* var book models.Book: Go's zero value.
ZeroBook == Book(0, "", "")

\* A request body: wf is FALSE for an empty body or one that is not JSON.
Body(wf, title, author) == [wf |-> wf, title |-> title, author |-> author]

NoBody == Body(FALSE, Absent, Absent)

\* The JSON bodies a client sends: both fields, one field, none, an empty
\* string, a value of the wrong type, and no JSON at all.
Bodies ==
    {NoBody, Body(TRUE, NotString, Absent), Body(TRUE, "", ""),
     Body(TRUE, "", "Simon Sinek"), Body(TRUE, "Start with Why", "")} \cup
    {Body(TRUE, t, a) : t \in Titles, a \in Authors} \cup
    {Body(TRUE, t, Absent) : t \in Titles \cup {Absent, ""}} \cup
    {Body(TRUE, Absent, a) : a \in Authors \cup {""}}

\* Decimal text of the ids, and the path parameters a client sends.
IdText == <<"1", "2", "3", "4", "5">>

Params == {IdText[i] : i \in 1..(MaxBooks + 1)} \cup {"abc"}

Request(method, path, id, body) ==
    [method |-> method, path |-> path, id |-> id, body |-> body]

\* The requests a client sends: the five operations of the API with every
\* body, the README's PATCH, and requests on paths that take no such method.
Requests ==
    {Request("GET", "/books", "", NoBody)} \cup
    {Request("POST", "/books", "", b) : b \in Bodies} \cup
    {Request("GET", "/books/:id", p, NoBody) : p \in Params} \cup
    {Request("PUT", "/books/:id", p, b) : p \in Params, b \in Bodies} \cup
    {Request("DELETE", "/books/:id", p, NoBody) : p \in Params} \cup
    {Request("PATCH", "/books/:id", p, Body(TRUE, "The Infinite Game", Absent)) :
        p \in Params} \cup
    {Request("DELETE", "/books", "", NoBody),
     Request("PUT", "/books", "", Body(TRUE, Absent, Absent))}

NoRequest == Request("", "", "", NoBody)

----------------------------------------------------------------------------
\* Responses: c.JSON(status, gin.H{key: ...})

Response(status, key, kind, book, list, error) ==
    [status |-> status, key |-> key, kind |-> kind, book |-> book,
     list |-> list, error |-> error]

NoResponse == Response(0, "", "none", ZeroBook, <<>>, "")

DataBook(b) == Response(200, "data", "book", b, <<>>, "")

DataList(l) == Response(200, "data", "list", ZeroBook, l, "")

DataTrue == Response(200, "data", "true", ZeroBook, <<>>, "")

ErrorResponse(msg) == Response(400, "error", "error", ZeroBook, <<>>, msg)

RecordNotFound == ErrorResponse("Record not found!")

\* gin.Default() installs Recovery: a panicking handler answers 500.
Recovered == Response(500, "", "none", ZeroBook, <<>>, "")

\* No route registered for the method and path.
PageNotFound == Response(404, "", "none", ZeroBook, <<>>, "404 page not found")

----------------------------------------------------------------------------
\* Binding and validation (gin ShouldBindJSON)

EOFError == "EOF"

TypeError == "json: cannot unmarshal number into Go struct field of type string"

TitleRequired == "Key: 'CreateBookInput.Title' Error:Field validation for 'Title' failed on the 'required' tag"

AuthorRequired == "Key: 'CreateBookInput.Author' Error:Field validation for 'Author' failed on the 'required' tag"

BothRequired == "Key: 'CreateBookInput.Title' ...\nKey: 'CreateBookInput.Author' ..."

\* A struct field after json decoding: an absent key leaves the zero value.
Decode(v) == IF v = Absent THEN "" ELSE v

Input(title, author) == [title |-> title, author |-> author]

\* Mutant of CreateBookInput: binding:"required" left off Author.
CreateBookInputTitleOnly(in) == IF in.title = "" THEN TitleRequired ELSE ""

\* binding:"required" on both fields: a zero value fails.
CreateBookInput(in) ==
    IF in.title = "" /\ in.author = "" THEN BothRequired
    ELSE IF in.title = "" THEN TitleRequired
    ELSE IF in.author = "" THEN AuthorRequired
    ELSE ""

\* No binding tags: every decoded input passes.
UpdateBookInput(in) == ""

\* c.ShouldBindJSON(&input): decode the body, then validate the struct.
ShouldBindJSON(schema, body) ==
    LET in == Input(Decode(body.title), Decode(body.author)) IN
    IF ~body.wf THEN [err |-> EOFError, input |-> Input("", "")]
    ELSE IF body.title = NotString \/ body.author = NotString
        THEN [err |-> TypeError, input |-> Input("", "")]
    ELSE IF schema = "CreateBookInput"
        THEN [err |-> CreateBookInput(in), input |-> in]
    ELSE [err |-> UpdateBookInput(in), input |-> in]

----------------------------------------------------------------------------
\* The repository (gorm over the books table)

\* The id a path parameter matches under "id = ?": 0 when it matches none.
ParseId(p) ==
    IF \E i \in 1..Len(IdText) : IdText[i] = p
    THEN CHOOSE i \in 1..Len(IdText) : IdText[i] = p
    ELSE 0

RECURSIVE RowsById(_)
\* The rows in primary-key order.
RowsById(rows) ==
    IF rows = {} THEN <<>>
    ELSE LET m == CHOOSE b \in rows : \A c \in rows : b.id <= c.id
         IN <<m>> \o RowsById(rows \ {m})

\* models.DB.Find(&books)
Find(rows) == RowsById(rows)

\* models.DB.Where("id = ?", p).First(&book)
First(rows, p) ==
    LET m == {b \in rows : b.id = ParseId(p)} IN
    IF m = {} THEN [err |-> TRUE, book |-> ZeroBook]
    ELSE [err |-> FALSE, book |-> RowsById(m)[1]]

\* Mutant of Create: the row is inserted, the id is not written back.
CreateNoIdBack(rows, last, book) ==
    [rows |-> rows \cup {Book(last + 1, book.title, book.author)},
     seq |-> last + 1, book |-> book]

\* models.DB.Create(&book): the table assigns the id, written back to book.
Create(rows, last, book) ==
    LET b == Book(last + 1, book.title, book.author) IN
    [rows |-> rows \cup {b}, seq |-> last + 1, book |-> b]

\* Mutant of Assign: every field is assigned, zero values too (a replace).
AssignAll(b, in) == Book(b.id, in.title, in.author)

\* Updates(input) on one record: only the non-zero fields are assigned.
Assign(b, in) ==
    Book(b.id,
         IF in.title # "" THEN in.title ELSE b.title,
         IF in.author # "" THEN in.author ELSE b.author)

\* Mutant of Updates: DB.Save(&book), which writes the whole loaded record.
Save(rows, book, in) ==
    [rows |-> {b \in rows : b.id # book.id} \cup {Assign(book, in)},
     book |-> Assign(book, in)]

\* models.DB.Model(&book).Updates(input): UPDATE ... WHERE id = book.ID, and
\* the same fields assigned to book.
Updates(rows, book, in) ==
    [rows |-> {IF b.id = book.id THEN Assign(b, in) ELSE b : b \in rows},
     book |-> Assign(book, in)]

\* models.DB.Delete(&book): DELETE ... WHERE id = book.ID
Delete(rows, book) == {b \in rows : b.id # book.id}

----------------------------------------------------------------------------
\* The handlers, as functions of the handle, the store and the request

Outcome(rows, last, r, calls) ==
    [books |-> rows, seq |-> last, resp |-> r, calls |-> calls]

\* A call on the nil handle panics; Recovery answers.
Panic(rows, last, call) == Outcome(rows, last, Recovered, <<call>>)

FindBooksRun(db, rows, last, r) ==
    IF db = "nil" THEN Panic(rows, last, "Find")
    ELSE Outcome(rows, last, DataList(Find(rows)), <<"Find">>)

CreateBookRun(db, rows, last, r) ==
    LET bind == ShouldBindJSON("CreateBookInput", r.body) IN
    IF bind.err # "" THEN Outcome(rows, last, ErrorResponse(bind.err), <<>>)
    ELSE IF db = "nil" THEN Panic(rows, last, "Create")
    ELSE LET c == Create(rows, last,
                         Book(0, bind.input.title, bind.input.author))
         IN Outcome(c.rows, c.seq, DataBook(c.book), <<"Create">>)

FindBookRun(db, rows, last, r) ==
    IF db = "nil" THEN Panic(rows, last, "First")
    ELSE LET f == First(rows, r.id) IN
         IF f.err THEN Outcome(rows, last, RecordNotFound, <<"First">>)
         ELSE Outcome(rows, last, DataBook(f.book), <<"First">>)

\* Mutant of UpdateBookFinish: the update runs before the binding error is
\* looked at.
UpdateBookFinishUnchecked(rows, last, book, r) ==
    LET bind == ShouldBindJSON("UpdateBookInput", r.body)
        u == Updates(rows, book, bind.input)
    IN IF bind.err # ""
       THEN Outcome(u.rows, last, ErrorResponse(bind.err), <<"First", "Updates">>)
       ELSE Outcome(u.rows, last, DataBook(u.book), <<"First", "Updates">>)

\* UpdateBook after its lookup found book: validate, update, respond.
UpdateBookFinish(rows, last, book, r) ==
    LET bind == ShouldBindJSON("UpdateBookInput", r.body) IN
    IF bind.err # ""
    THEN Outcome(rows, last, ErrorResponse(bind.err), <<"First">>)
    ELSE LET u == Updates(rows, book, bind.input)
         IN Outcome(u.rows, last, DataBook(u.book), <<"First", "Updates">>)

UpdateBookRun(db, rows, last, r) ==
    IF db = "nil" THEN Panic(rows, last, "First")
    ELSE LET f == First(rows, r.id) IN
         IF f.err THEN Outcome(rows, last, RecordNotFound, <<"First">>)
         ELSE UpdateBookFinish(rows, last, f.book, r)

\* DeleteBook after its lookup found book: delete, respond.
DeleteBookFinish(rows, last, book, r) ==
    Outcome(Delete(rows, book), last, DataTrue, <<"First", "Delete">>)

DeleteBookRun(db, rows, last, r) ==
    IF db = "nil" THEN Panic(rows, last, "First")
    ELSE LET f == First(rows, r.id) IN
         IF f.err THEN Outcome(rows, last, RecordNotFound, <<"First">>)
         ELSE DeleteBookFinish(rows, last, f.book, r)

----------------------------------------------------------------------------
\* The router (main.go)

Routes ==
    {<<"GET", "/books", "FindBooks">>,
     <<"GET", "/books/:id", "FindBook">>,
     <<"POST", "/books", "CreateBook">>,
     <<"PUT", "/books/:id", "UpdateBook">>,
     <<"DELETE", "/books/:id", "DeleteBook">>}

Route(r) ==
    IF \E e \in Routes : e[1] = r.method /\ e[2] = r.path
    THEN (CHOOSE e \in Routes : e[1] = r.method /\ e[2] = r.path)[3]
    ELSE "NoRoute"

----------------------------------------------------------------------------
\* Start-up

Idle == [pc |-> "idle", op |-> "", req |-> NoRequest, book |-> ZeroBook,
         resp |-> NoResponse]

Slots == 1..NSlots

History(rows, last, c, d) ==
    [books |-> rows, seq |-> last, created |-> c, deleted |-> d]

Init ==
    /\ pc = "start"
    /\ DB = "nil"
    /\ books = {}
    /\ seq = 0
    /\ req = NoRequest
    /\ handler = ""
    /\ resp = NoResponse
    /\ dbCalls = <<>>
    /\ pre = History({}, 0, ZeroBook, {})
    /\ created = ZeroBook
    /\ deleted = {}
    /\ inflight = [s \in Slots |-> Idle]
    /\ books0 = {}

\* models.ConnectDatabase(): the position main reaches and the handle it
\* leaves, for each outcome of gorm.Open and AutoMigrate.
ConnectDatabase(outcome) ==
    IF outcome = "open fails" THEN [pc |-> "aborted", DB |-> "nil"]
    ELSE IF outcome = "migrate fails" THEN [pc |-> "run", DB |-> "nil"]
    ELSE [pc |-> "run", DB |-> "open"]

\* main: ConnectDatabase, the route registrations, r.Run().
Main ==
    /\ pc = "start"
    /\ \E outcome \in {"open fails", "migrate fails", "ok"},
          listen \in {"ok", "fails"} :
        LET c == ConnectDatabase(outcome) IN
        /\ DB' = c.DB
        /\ pc' = IF c.pc = "aborted" THEN "aborted"
                 ELSE IF listen = "fails" THEN "exited"
                 ELSE "serving"
    /\ UNCHANGED <<books, seq, req, handler, resp, dbCalls, pre, created,
                   deleted, inflight, books0>>

----------------------------------------------------------------------------
\* Serving one request

Handle(r, h, out) ==
    /\ pc = "serving"
    /\ Route(r) = h
    /\ out.seq <= MaxBooks
    /\ req' = r
    /\ handler' = h
    /\ resp' = out.resp
    /\ books' = out.books
    /\ seq' = out.seq
    /\ dbCalls' = out.calls
    /\ pre' = History(books, seq, created, deleted)
    /\ created' = IF h = "CreateBook" /\ out.resp.status = 200
                  THEN out.resp.book ELSE ZeroBook
    /\ deleted' = deleted \cup ({b.id : b \in books} \ {b.id : b \in out.books})
    /\ UNCHANGED <<pc, DB, inflight, books0>>

FindBooks(r) == Handle(r, "FindBooks", FindBooksRun(DB, books, seq, r))

CreateBook(r) == Handle(r, "CreateBook", CreateBookRun(DB, books, seq, r))

FindBook(r) == Handle(r, "FindBook", FindBookRun(DB, books, seq, r))

UpdateBook(r) == Handle(r, "UpdateBook", UpdateBookRun(DB, books, seq, r))

DeleteBook(r) == Handle(r, "DeleteBook", DeleteBookRun(DB, books, seq, r))

NoRoute(r) ==
    Handle(r, "NoRoute", Outcome(books, seq, PageNotFound, <<>>))

Next ==
    \/ Main
    \/ \E r \in Requests : FindBooks(r)
    \/ \E r \in Requests : CreateBook(r)
    \/ \E r \in Requests : FindBook(r)
    \/ \E r \in Requests : UpdateBook(r)
    \/ \E r \in Requests : DeleteBook(r)
    \/ \E r \in Requests : NoRoute(r)

Spec == Init /\ [][Next]_vars

----------------------------------------------------------------------------
\* Concurrent requests: gin serves each request on its own goroutine, and a
\* handler's lookup and its write are separate statements on the shared
\* handle, with no transaction around them.

\* The UpdateBook and DeleteBook requests that meet on book 1.
ConcRequests ==
    {Request("DELETE", "/books/:id", "1", NoBody)} \cup
    {Request("PUT", "/books/:id", "1", b) :
        b \in {NoBody, Body(TRUE, Absent, Absent),
               Body(TRUE, "The Infinite Game", Absent),
               Body(TRUE, Absent, "Rahman Fadhil"),
               Body(TRUE, "The Infinite Game", "Rahman Fadhil")}}

Slot(p, op, r, book, out) ==
    [pc |-> p, op |-> op, req |-> r, book |-> book, resp |-> out]

\* The server is up on an initialised handle; book 1 is stored, or was
\* stored and has been deleted.
InitConc ==
    /\ pc = "serving"
    /\ DB = "open"
    /\ books \in {{}} \cup {{Book(1, t, a)} : t \in Titles, a \in Authors}
    /\ seq = 1
    /\ req = NoRequest
    /\ handler = ""
    /\ resp = NoResponse
    /\ dbCalls = <<>>
    /\ deleted = {1} \ {b.id : b \in books}
    /\ pre = History(books, seq, ZeroBook, deleted)
    /\ created = ZeroBook
    /\ inflight = [s \in Slots |-> Idle]
    /\ books0 = books

\* The first statement of UpdateBook and DeleteBook: the lookup by id.
StartRequest(s) ==
    /\ pc = "serving"
    /\ inflight[s].pc = "idle"
    /\ \E r \in ConcRequests :
        LET f == First(books, r.id) IN
        inflight' = [inflight EXCEPT ![s] =
            IF f.err THEN Slot("done", Route(r), r, ZeroBook, RecordNotFound)
            ELSE Slot("loaded", Route(r), r, f.book, NoResponse)]
    /\ UNCHANGED <<pc, DB, books, seq, req, handler, resp, dbCalls, pre,
                   created, deleted, books0>>

\* The rest of UpdateBook: ShouldBindJSON, Updates, the response.
FinishUpdate(s) ==
    /\ inflight[s].pc = "loaded"
    /\ inflight[s].op = "UpdateBook"
    /\ LET out == UpdateBookFinish(books, seq, inflight[s].book, inflight[s].req)
       IN /\ books' = out.books
          /\ inflight' = [inflight EXCEPT ![s].pc = "done", ![s].resp = out.resp]
    /\ UNCHANGED <<pc, DB, seq, req, handler, resp, dbCalls, pre, created,
                   deleted, books0>>

\* The rest of DeleteBook: Delete, the response.
FinishDelete(s) ==
    /\ inflight[s].pc = "loaded"
    /\ inflight[s].op = "DeleteBook"
    /\ LET out == DeleteBookFinish(books, seq, inflight[s].book, inflight[s].req)
       IN /\ books' = out.books
          /\ inflight' = [inflight EXCEPT ![s].pc = "done", ![s].resp = out.resp]
    /\ UNCHANGED <<pc, DB, seq, req, handler, resp, dbCalls, pre, created,
                   deleted, books0>>

NextConc ==
    \/ \E s \in Slots : StartRequest(s)
    \/ \E s \in Slots : FinishUpdate(s)
    \/ \E s \in Slots : FinishDelete(s)

SpecConc == InitConc /\ [][NextConc]_vars

----------------------------------------------------------------------------
\* Vocabulary of the properties

ByIdHandlers == {"FindBook", "UpdateBook", "DeleteBook"}

\* The rows of a store that a path parameter names.
Named(rows, p) == {b \in rows : b.id = ParseId(p)}

\* A field value that carries a non-empty string.
HasText(v) == v \notin {Absent, NotString, ""}

\* What a field holds after a merge of the payload's value over the old one.
Merged(v, old) == IF HasText(v) THEN v ELSE old

\* A body that cannot be bound at all: no JSON, or a field of a wrong type.
Unbindable(b) == ~b.wf \/ b.title = NotString \/ b.author = NotString

\* A body that fails the validation of the handler that receives it.
FailsValidation(h, b) ==
    \/ Unbindable(b)
    \/ h = "CreateBook" /\ (b.title \in {Absent, ""} \/ b.author \in {Absent, ""})

IsNotFound(r) ==
    r.status = 400 /\ r.key = "error" /\ r.error = "Record not found!"

IsValidationError(r) ==
    /\ r.status = 400
    /\ r.key = "error"
    /\ r.error \notin {"", "Record not found!"}

----------------------------------------------------------------------------
\* C1: a CreateBook that succeeds returns the row it persisted, under a fresh
\* id and with the title and author of the payload; a FindBook with that id
\* right after it responds 200 with the identical record.
C1_CreateThenFind ==
    /\ (handler = "CreateBook" /\ resp.status = 200) =>
          /\ resp.key = "data" /\ resp.kind = "book"
          /\ HasText(req.body.title) /\ HasText(req.body.author)
          /\ resp.book.title = req.body.title
          /\ resp.book.author = req.body.author
          /\ resp.book.id >= 1
          /\ resp.book.id \notin {b.id : b \in pre.books}
          /\ books = pre.books \cup {resp.book}
    /\ (handler = "FindBook" /\ pre.created # ZeroBook
            /\ ParseId(req.id) = pre.created.id) =>
          /\ resp.status = 200 /\ resp.key = "data" /\ resp.kind = "book"
          /\ resp.book = pre.created

\* A second book is created next to a first and fetched by the returned id.
C1_Witness ==
    /\ handler = "FindBook"
    /\ pre.created # ZeroBook
    /\ ParseId(req.id) = pre.created.id
    /\ pre.created.id = 2
    /\ Cardinality(books) = 2
    /\ resp.status = 200

\* C2: UpdateBook on an existing book with a payload that binds responds 200;
\* each of title and author, persisted and in the response, is the payload's
\* value when present and non-empty and the old value otherwise; the id is
\* kept, no other row changes, and an empty payload leaves the record as is.
C2_UpdateMerges ==
    /\ (handler = "UpdateBook" /\ Named(pre.books, req.id) # {}
            /\ ~Unbindable(req.body)) =>
          LET old == CHOOSE b \in pre.books : b.id = ParseId(req.id)
              new == Book(old.id, Merged(req.body.title, old.title),
                          Merged(req.body.author, old.author))
          IN /\ resp.status = 200 /\ resp.key = "data" /\ resp.kind = "book"
             /\ resp.book = new
             /\ books = (pre.books \ {old}) \cup {new}
             /\ seq = pre.seq
             /\ (req.body.title = Absent /\ req.body.author = Absent) =>
                    (resp.book = old /\ books = pre.books)
    /\ (handler = "UpdateBook" /\ resp.status = 200) =>
          (Named(pre.books, req.id) # {} /\ ~Unbindable(req.body))

\* A title-only patch changes the title of one of two stored books.
C2_Witness ==
    /\ handler = "UpdateBook"
    /\ resp.status = 200
    /\ Cardinality(books) = 2
    /\ HasText(req.body.title)
    /\ req.body.author = Absent
    /\ \E old \in pre.books :
          /\ old.id = resp.book.id
          /\ old.title # resp.book.title
          /\ old.author = resp.book.author

\* C3: a DeleteBook that succeeds responds {"data": true} and removes the row;
\* every later FindBook, UpdateBook or DeleteBook on a deleted id responds
\* 400 "Record not found!"; DeleteBook on an id that never existed responds
\* the same and leaves the store unchanged.
C3_DeletedStaysDeleted ==
    /\ (handler = "DeleteBook" /\ resp.status = 200) =>
          /\ resp.key = "data" /\ resp.kind = "true"
          /\ Named(pre.books, req.id) # {}
          /\ books = pre.books \ Named(pre.books, req.id)
    /\ (handler \in ByIdHandlers /\ ParseId(req.id) \in pre.deleted) =>
          (IsNotFound(resp) /\ books = pre.books)
    /\ (handler = "DeleteBook" /\ ParseId(req.id) \notin 1..pre.seq) =>
          (IsNotFound(resp) /\ books = pre.books)

\* The statement of C3 on an initialised handle.
C3_WhenConnected == DB = "open" => C3_DeletedStaysDeleted

\* C4: FindBooks always responds 200 with exactly the rows in storage: the
\* books created and not yet deleted, each with its current title and author.
C4_FindBooksListsStore ==
    handler = "FindBooks" =>
        /\ resp.status = 200 /\ resp.key = "data" /\ resp.kind = "list"
        /\ {resp.list[i] : i \in 1..Len(resp.list)} = books
        /\ Len(resp.list) = Cardinality(books)
        /\ Len(resp.list) = seq - Cardinality(deleted)
        /\ {b.id : b \in books} = (1..seq) \ deleted
        /\ books = pre.books

\* The statement of C4 on an initialised handle.
C4_WhenConnected == DB = "open" => C4_FindBooksListsStore

\* C5 as stated, on an initialised handle: CreateBook and UpdateBook make no
\* repository call when the body fails validation, and respond 400 with the
\* validation error message.
C5_ValidatedBeforeStorage ==
    (DB = "open" /\ handler \in {"CreateBook", "UpdateBook"}
        /\ FailsValidation(handler, req.body)) =>
        (dbCalls = <<>> /\ IsValidationError(resp))

\* C5 amended: CreateBook validates before any repository call; UpdateBook
\* validates after its lookup, so on a failed validation of a found record it
\* has made that one read and no write.  Either way the store is unchanged
\* and the response is 400 with the validation error message.
C5_ValidatedBeforeWrite ==
    /\ (handler = "CreateBook" /\ FailsValidation(handler, req.body)) =>
          /\ dbCalls = <<>>
          /\ IsValidationError(resp)
          /\ books = pre.books /\ seq = pre.seq
    /\ (handler = "UpdateBook" /\ FailsValidation(handler, req.body)
            /\ Named(pre.books, req.id) # {}) =>
          /\ dbCalls = <<"First">>
          /\ IsValidationError(resp)
          /\ books = pre.books /\ seq = pre.seq

\* An UpdateBook of a stored book fails validation after its lookup.
C5_Witness ==
    /\ handler = "UpdateBook"
    /\ FailsValidation(handler, req.body)
    /\ Named(pre.books, req.id) # {}
    /\ dbCalls = <<"First">>
    /\ resp.status = 400

\* C6: CreateBook with title or author absent or empty responds 400 with an
\* error envelope, stores nothing and assigns no id.
C6_InvalidCreateRejected ==
    (handler = "CreateBook"
        /\ (req.body.title \in {Absent, ""} \/ req.body.author \in {Absent, ""})) =>
        /\ resp.status = 400 /\ resp.key = "error" /\ resp.error # ""
        /\ books = pre.books
        /\ seq = pre.seq
        /\ created = ZeroBook

\* A create with an empty title and a good author is refused by a store
\* that holds a book.
C6_Witness ==
    /\ handler = "CreateBook"
    /\ req.body.title = ""
    /\ req.body.author \in Authors
    /\ resp.status = 400
    /\ books # {}

\* C7: FindBook, UpdateBook and DeleteBook on an id that names no stored book
\* respond 400 "Record not found!" and leave the store unchanged.
C7_UnknownIdNotFound ==
    (handler \in ByIdHandlers /\ Named(pre.books, req.id) = {}) =>
        (IsNotFound(resp) /\ books = pre.books /\ seq = pre.seq)

\* The statement of C7 on an initialised handle.
C7_WhenConnected == DB = "open" => C7_UnknownIdNotFound

\* C8: PUT and PATCH on /books/{id} are both dispatched to UpdateBook.
C8_PutAndPatchUpdate ==
    (req.method \in {"PUT", "PATCH"} /\ req.path = "/books/:id") =>
        handler = "UpdateBook"

\* C9: whenever the server is serving, the storage handle is initialised.
C9_ServingImpliesConnected == pc = "serving" => DB = "open"

----------------------------------------------------------------------------
\* Serial executions of the concurrent requests

Finished == {s \in Slots : inflight[s].pc = "done"}

Quiescent == \A s \in Slots : inflight[s].pc # "loaded"

\* The orders in which the finished requests can run one after another.
Orders ==
    {o \in [1..Cardinality(Finished) -> Finished] :
        \A i, j \in 1..Cardinality(Finished) : o[i] = o[j] => i = j}

RECURSIVE SerialRun(_, _, _)
\* The store and the responses after the requests of order ran one at a time.
SerialRun(order, rows, resps) ==
    IF order = <<>> THEN [books |-> rows, resps |-> resps]
    ELSE LET s == Head(order)
             out == IF inflight[s].op = "UpdateBook"
                    THEN UpdateBookRun(DB, rows, seq, inflight[s].req)
                    ELSE DeleteBookRun(DB, rows, seq, inflight[s].req)
         IN SerialRun(Tail(order), out.books, [resps EXCEPT ![s] = out.resp])

Serial(o) == SerialRun(o, books0, [s \in Slots |-> NoResponse])

\* C10 as stated: once the concurrent requests have finished, the store and
\* every response are those of one serial order of the same requests.
C10_Serializable ==
    Quiescent =>
        \E o \in Orders :
            /\ Serial(o).books = books
            /\ \A s \in Finished : Serial(o).resps[s] = inflight[s].resp

\* C10 amended: the final store is that of some serial order of the same
\* requests; a response is decided by what the request's own lookup saw: not
\* found when it found no row, and for a found row {"data": true} from
\* DeleteBook and from UpdateBook the loaded record with the payload merged.
C10_StoreSerializable ==
    /\ Quiescent => \E o \in Orders : Serial(o).books = books
    /\ \A s \in Finished :
          LET f == inflight[s] IN
          \/ f.book = ZeroBook /\ IsNotFound(f.resp)
          \/ /\ f.book # ZeroBook /\ f.op = "DeleteBook"
             /\ f.resp.status = 200 /\ f.resp.kind = "true"
          \/ /\ f.book # ZeroBook /\ f.op = "UpdateBook"
             /\ Unbindable(f.req.body) /\ IsValidationError(f.resp)
          \/ /\ f.book # ZeroBook /\ f.op = "UpdateBook"
             /\ ~Unbindable(f.req.body)
             /\ f.resp.status = 200
             /\ f.resp.book = Book(f.book.id,
                                   Merged(f.req.body.title, f.book.title),
                                   Merged(f.req.body.author, f.book.author))

\* Two updates of different fields ran interleaved: both looked the book up
\* before either wrote, and the row holds both changes.
C10_Witness ==
    /\ Quiescent
    /\ \E s, t \in Finished :
          /\ s # t
          /\ inflight[s].op = "UpdateBook" /\ inflight[t].op = "UpdateBook"
          /\ inflight[s].resp.status = 200 /\ inflight[t].resp.status = 200
          /\ inflight[s].resp.book \notin books
          /\ inflight[t].resp.book \notin books
          /\ inflight[s].book = inflight[t].book

====
